---- MODULE Spec2Model ----
(***************************************************************************)
(* Model of advanced-vector/vector.h: RawMemory<T> (a raw storage block)   *)
(* and Vector<T> (a growable sequence built on it).                        *)
(*                                                                         *)
(* The file holds two near-duplicate variants of both classes: variant 1   *)
(* (lines 13-348) and variant 2 (lines 353-690).  The variable `variant`   *)
(* selects which text of the member functions is executed.                 *)
(*                                                                         *)
(* Storage is a heap of blocks; every slot of a block is either Raw        *)
(* (uninitialized) or holds an element value.  Every member function is    *)
(* one action; its body is a chain of element-level primitives applied to  *)
(* a machine record m (the vectors, the heap and the bookkeeping of the    *)
(* call).                                                                  *)
(***************************************************************************)
EXTENDS Integers, Sequences, FiniteSets, TLC

\* ---------------------------------------------------------------- bounds
MaxCap == 4        \* largest capacity a Vector may grow to
MaxAsk == 3        \* largest size or capacity a call may ask for
MaxBlocks == 3     \* block addresses 1..MaxBlocks; 0 is nullptr
SizeBits == 6      \* width of size_t in the model
PairCap == 2       \* largest capacity in the two-vector specification
PushCap == 8       \* largest capacity in the push-only specification

Vecs == {"a", "b"}             \* the Vector objects of the program
Objs == Vecs \cup {"tmp"}      \* and the local rhs_copy of copy assignment
\* Element values.  The code is generic in T and never looks into an
\* element: it only constructs, copies, moves, assigns and destroys.  Two
\* values that can be told apart are enough to tell where an element went;
\* T() is the value 0.
Val == {0, 1}
BlockIds == 1..MaxBlocks
Raw == -1                      \* an uninitialized slot
NoFail == -1                   \* no copy constructor call throws
SizeMod == 2 ^ SizeBits        \* size_t arithmetic is modulo this

VARIABLES
    variant,            \* 1: lines 13-348, 2: lines 353-690
    transferSafe,       \* is_nothrow_move_constructible_v<T> || !is_copy_constructible_v<T>
    nothrowMoveAssign,  \* is_nothrow_move_assignable_v<T>
    vec,                \* the Vector objects: data_ (buf, cap) and size_
    heap,               \* the storage blocks
    nlive,              \* element constructions minus element destructions
    fault,              \* "none", or how undefined behaviour ended the run
    last                \* the call that produced this state

vars == <<variant, transferSafe, nothrowMoveAssign, vec, heap, nlive, fault, last>>

\* ------------------------------------------------------------ RawMemory
FreeBlock == [st |-> "free", slots |-> <<>>]
NullMem == [buf |-> 0, cap |-> 0]
DeadVec == [alive |-> FALSE, buf |-> 0, cap |-> 0, size |-> 0]

\* operator new: the lowest free address
NewBlock(h) ==
    IF \E b \in BlockIds : h[b].st = "free"
    THEN CHOOSE b \in BlockIds : h[b].st = "free" /\ \A c \in 1..(b - 1) : h[c].st # "free"
    ELSE 0

\* the rest of a call is skipped once it crashed or an exception is in flight
Crashed(m) == m.fault # "none"
Stopped(m) == Crashed(m) \/ m.threw

\* RawMemory(size_t capacity): buffer_(Allocate(capacity)), capacity_(capacity)
AllocAddr(m, n) == IF n = 0 THEN 0 ELSE NewBlock(m.heap)

Allocate(m, n) ==
    IF Stopped(m) \/ n = 0 THEN m
    ELSE [m EXCEPT !.heap[NewBlock(m.heap)] = [st |-> "alloc", slots |-> [i \in 1..n |-> Raw]]]

RawMemory(m, n) == [buf |-> AllocAddr(m, n), cap |-> n]

\* operator delete(buf): deleting nullptr does nothing; a block that is not
\* allocated any more is a double free
Deallocate(m, b) ==
    IF Crashed(m) \/ b = 0 THEN m
    ELSE IF m.heap[b].st # "alloc" THEN [m EXCEPT !.dfree = TRUE, !.viol = TRUE]
    ELSE [m EXCEPT !.heap[b].st = "released"]

\* ------------------------------------------------- element primitives
InBlock(m, b, i) == b \in BlockIds /\ i >= 0 /\ i < Len(m.heap[b].slots)
Usable(m, b, i) == InBlock(m, b, i) /\ m.heap[b].st = "alloc"
IsLive(m, b, i) == Usable(m, b, i) /\ m.heap[b].slots[i + 1] # Raw
At(m, b, i) == m.heap[b].slots[i + 1]

\* undefined behaviour the model does not follow further: an element
\* operation on a slot that is outside its block or in the wrong state
Undefined(m) ==
    [m EXCEPT !.viol = TRUE, !.slot = TRUE,
              !.fault = IF m.ub = "crash" THEN "crash" ELSE "ub"]

\* new (p) T(x): placement construction.  Building over a live slot ends the
\* old object's lifetime without its destructor.
Construct(m, b, i, x) ==
    IF Stopped(m) THEN m
    ELSE IF ~InBlock(m, b, i) THEN Undefined(m)
    ELSE [m EXCEPT !.heap[b].slots[i + 1] = x,
                   !.nlive = @ + 1, !.ops = @ + 1,
                   !.viol = @ \/ ~Usable(m, b, i) \/ At(m, b, i) # Raw,
                   !.slot = @ \/ ~Usable(m, b, i) \/ At(m, b, i) # Raw]

\* p->~T()
Destroy(m, b, i) ==
    IF Stopped(m) THEN m
    ELSE IF ~IsLive(m, b, i) THEN Undefined(m)
    ELSE [m EXCEPT !.heap[b].slots[i + 1] = Raw, !.nlive = @ - 1, !.ops = @ + 1]

\* *p = x: assignment through operator=.  Assigning to raw storage runs
\* operator= on an object that was never constructed.
Assign(m, b, i, x) ==
    IF Stopped(m) THEN m
    ELSE IF ~Usable(m, b, i) THEN Undefined(m)
    ELSE IF At(m, b, i) = Raw /\ m.ub # "lucky" THEN Undefined(m)
    ELSE [m EXCEPT !.heap[b].slots[i + 1] = x, !.ops = @ + 1,
                   !.viol = @ \/ At(m, b, i) = Raw,
                   !.slot = @ \/ At(m, b, i) = Raw]

\* *dst = *src (or *dst = std::move(*src)) between two slots
AssignFrom(m, sb, so, db, do) ==
    IF Stopped(m) THEN m
    ELSE IF ~IsLive(m, sb, so) THEN Undefined(m)
    ELSE Assign(m, db, do, At(m, sb, so))

\* std::destroy_n(p, n)
RECURSIVE DestroyN(_, _, _, _)
DestroyN(m, b, off, n) ==
    IF n = 0 THEN m ELSE DestroyN(Destroy(m, b, off), b, off + 1, n - 1)

\* std::uninitialized_value_construct_n(p, n)
RECURSIVE ValueConstructN(_, _, _, _)
ValueConstructN(m, b, off, n) ==
    IF n = 0 THEN m ELSE ValueConstructN(Construct(m, b, off, 0), b, off + 1, n - 1)

\* T(const T&): the call counted by ncopy; the failAt-th call of the
\* operation throws
Throws(m) == m.ncopy = m.failAt

\* the value a moved-from object keeps (an int-like T keeps its value)
MovedFrom(x) == x

\* std::uninitialized_copy_n(src, n, dst): copy-constructs dst[0..n) from
\* src[0..n); if a copy throws, destroys what it built and rethrows
RECURSIVE CopyLoop(_, _, _, _, _, _, _)
CopyLoop(m, sb, so, n, db, do, j) ==
    IF Stopped(m) \/ j = n THEN m
    ELSE IF ~IsLive(m, sb, so + j) THEN Undefined(m)
    ELSE IF Throws(m) THEN [DestroyN(m, db, do, j) EXCEPT !.threw = TRUE, !.ncopy = @ + 1]
    ELSE CopyLoop(Construct([m EXCEPT !.ncopy = @ + 1], db, do + j, At(m, sb, so + j)),
                  sb, so, n, db, do, j + 1)

UninitializedCopyN(m, sb, so, n, db, do) == CopyLoop(m, sb, so, n, db, do, 0)

\* std::uninitialized_move_n(src, n, dst): move-constructs; the source
\* objects stay live in their moved-from state
RECURSIVE MoveLoop(_, _, _, _, _, _, _)
MoveLoop(m, sb, so, n, db, do, j) ==
    IF Stopped(m) \/ j = n THEN m
    ELSE IF ~IsLive(m, sb, so + j) THEN Undefined(m)
    ELSE LET x == At(m, sb, so + j)
             m1 == Construct(m, db, do + j, x)
         IN MoveLoop(IF Stopped(m1) THEN m1
                     ELSE [m1 EXCEPT !.heap[sb].slots[so + j + 1] = MovedFrom(@)],
                     sb, so, n, db, do, j + 1)

UninitializedMoveN(m, sb, so, n, db, do) == MoveLoop(m, sb, so, n, db, do, 0)

\* the transfer chosen by
\* if constexpr (is_nothrow_move_constructible_v<T> || !is_copy_constructible_v<T>)
Transfer(m, sb, so, n, db, do) ==
    IF m.safe THEN UninitializedMoveN(m, sb, so, n, db, do)
    ELSE UninitializedCopyN(m, sb, so, n, db, do)

\* std::copy_n(src, n, dst): copy-assigns dst[j] = src[j], ascending
RECURSIVE CopyN(_, _, _, _, _, _)
CopyN(m, sb, so, n, db, do) ==
    IF Stopped(m) \/ n = 0 THEN m
    ELSE CopyN(AssignFrom(m, sb, so, db, do), sb, so + 1, n - 1, db, do + 1)

\* std::move_backward(first, last, d_last) inside one block: assigns
\* *(--d_last) = std::move(*(--last)) until last reaches first
RECURSIVE MoveBackward(_, _, _, _, _)
MoveBackward(m, b, first, lst, dlast) ==
    IF Stopped(m) \/ lst <= first THEN m
    ELSE MoveBackward(AssignFrom(m, b, lst - 1, b, dlast - 1), b, first, lst - 1, dlast - 1)

\* ------------------------------------------------- Vector bookkeeping
Data(m, v) == [buf |-> m.vec[v].buf, cap |-> m.vec[v].cap]
Size(m, v) == m.vec[v].size
Capacity(m, v) == m.vec[v].cap

\* data_.Swap(new_data): RawMemory::Swap exchanges buffer_ and capacity_
SwapLocal(m, v) ==
    IF Stopped(m) THEN m
    ELSE [m EXCEPT !.vec[v].buf = m.local.buf, !.vec[v].cap = m.local.cap,
                   !.local = Data(m, v)]

\* size_ updated before the transfer has succeeded
SetSizeEager(m, v, n) == IF Crashed(m) THEN m ELSE [m EXCEPT !.vec[v].size = n % SizeMod]

SetSize(m, v, n) == IF Stopped(m) THEN m ELSE [m EXCEPT !.vec[v].size = n % SizeMod]

\* RawMemory<T> new_data(capacity) as a local of the running call
NewLocal(m, n) ==
    IF Stopped(m) THEN m ELSE [Allocate(m, n) EXCEPT !.local = RawMemory(m, n)]

\* ~RawMemory() of the local, on return and on unwinding alike
DropLocal(m) == [Deallocate(m, m.local.buf) EXCEPT !.local = NullMem]

\* new (p) T(std::forward<Args>(args)...): builds the new element from the
\* caller's value; this is the first counted constructor call of the operation
ConstructNew(m, b, i, x) ==
    IF Stopped(m) THEN m
    ELSE IF Throws(m) THEN [m EXCEPT !.threw = TRUE, !.ncopy = @ + 1]
    ELSE Construct([m EXCEPT !.ncopy = @ + 1], b, i, x)

\* T temp(std::forward<Args&&>(args)...): a local, destroyed on return
TempConstruct(m) ==
    IF Stopped(m) THEN m
    ELSE IF Throws(m) THEN [m EXCEPT !.threw = TRUE, !.ncopy = @ + 1]
    ELSE [m EXCEPT !.ncopy = @ + 1]

\* growth by one slot instead of doubling
NewCapacityPlusOne(n) == (n + 1) % SizeMod

\* size_t new_capacity = (size_ == 0 ? 1 : size_ * 2)
NewCapacity(n) == IF n = 0 THEN 1 ELSE (n * 2) % SizeMod

\* ------------------------------------------------------------ Emplace
\* the in-place branch of Emplace: variant 1 lines 277-294, variant 2 OffsetRight
OffsetRight(m, v, i, x) ==
    LET b == m.vec[v].buf
        n == Size(m, v)
        m1 == TempConstruct(m)
        m2 == IF m.safe
              THEN Assign(MoveBackward(UninitializedMoveN(m1, b, n - 1, 1, b, n),
                                       b, i, n - 1, n),
                          b, i, x)
              ELSE Construct(MoveBackward(AssignFrom(m1, b, n - 1, b, n), b, i, n - 1, n),
                             b, i, x)
        m3 == SetSize(m2, v, n + 1)
    IN IF Stopped(m3) THEN m3 ELSE [m3 EXCEPT !.ret = [buf |-> b, off |-> i], !.path = "inplace"]

\* the reallocating branch of Emplace: variant 1 lines 296-312, variant 2
\* OffsetRightNewCapacity
OffsetRightNewCapacity(m, v, i, x) ==
    LET old == m.vec[v].buf
        n == Size(m, v)
        m1 == NewLocal(m, NewCapacity(n))
        nb == m1.local.buf
        m2 == ConstructNew(m1, nb, i, x)
        m3 == Transfer(m2, old, 0, i, nb, 0)
        m4 == Transfer(m3, old, i, n - i, nb, i + 1)
        m5 == SwapLocal(m4, v)
        m6 == DestroyN(m5, m5.local.buf, 0, n)
        m7 == SetSize(m6, v, n + 1)
        \* pos - new_data.GetAddress(): both point into the old block
        m8 == IF Stopped(m7) THEN m7
              ELSE [m7 EXCEPT !.ret = [buf |-> m7.vec[v].buf, off |-> i], !.path = "realloc"]
    IN DropLocal(m8)

Emplace(m, v, i, x) ==
    IF Size(m, v) < Capacity(m, v)
    THEN IF i = Size(m, v)
         THEN LET m1 == SetSize(ConstructNew(m, m.vec[v].buf, i, x), v, Size(m, v) + 1)
              IN IF Stopped(m1) THEN m1
                 ELSE [m1 EXCEPT !.ret = [buf |-> m.vec[v].buf, off |-> i], !.path = "append"]
         ELSE OffsetRight(m, v, i, x)
    ELSE OffsetRightNewCapacity(m, v, i, x)

\* EmplaceBack: variant 1 has its own body (lines 228-248), variant 2
\* forwards to Emplace(end(), args...)
EmplaceBack(m, v, x) ==
    IF m.variant = 2 THEN Emplace(m, v, Size(m, v), x)
    ELSE LET n == Size(m, v)
             old == m.vec[v].buf
         IN IF n < Capacity(m, v)
            THEN LET m1 == SetSize(ConstructNew(m, old, n, x), v, n + 1)
                 IN IF Stopped(m1) THEN m1
                    ELSE [m1 EXCEPT !.ret = [buf |-> old, off |-> n], !.path = "append"]
            ELSE LET m1 == NewLocal(m, NewCapacity(n))
                     nb == m1.local.buf
                     m2 == ConstructNew(m1, nb, n, x)
                     m3 == Transfer(m2, old, 0, n, nb, 0)
                     m4 == SwapLocal(m3, v)
                     m5 == DestroyN(m4, m4.local.buf, 0, n)
                     m6 == SetSize(m5, v, n + 1)
                     m7 == IF Stopped(m6) THEN m6
                           ELSE [m6 EXCEPT !.ret = [buf |-> m6.vec[v].buf, off |-> n],
                                           !.path = "realloc"]
                 IN DropLocal(m7)

\* ------------------------------------------------- Reserve and Resize
\* a buffer that names a block already given back to the allocator
Dangling(m, mem) == mem.buf # 0 /\ m.heap[mem.buf].st # "alloc"

\* SwapNewData (variant 2, lines 639-649) returns RawMemory<T>&& bound to its
\* own local new_data.  The local is destroyed on return, which releases the
\* block; the caller then move-constructs its new_data from the dead object:
\* it either crashes or reads the stale address and capacity.
SwapNewData(m, v, k) ==
    LET n == Size(m, v)
        m1 == NewLocal(m, k)
        m2 == Transfer(m1, m.vec[v].buf, 0, n, m1.local.buf, 0)
        stale == m2.local
        m3 == DropLocal(m2)
    IN IF Stopped(m3) THEN m3
       ELSE IF m.ub = "crash" THEN [m3 EXCEPT !.viol = TRUE, !.fault = "crash"]
       ELSE [m3 EXCEPT !.local = stale, !.viol = TRUE]

\* for (i < size_) new (new_data.GetAddress() + i) T(data_[i]): the loop of
\* variant 1's Resize (lines 198-205); nothing destroys what was built when a
\* copy throws
RECURSIVE PlacementLoop(_, _, _, _, _)
PlacementLoop(m, sb, n, db, j) ==
    IF Stopped(m) \/ j = n THEN m
    ELSE IF ~IsLive(m, sb, j) THEN Undefined(m)
    ELSE IF m.safe
    THEN PlacementLoop(Construct(m, db, j, At(m, sb, j)), sb, n, db, j + 1)
    ELSE IF Throws(m) THEN [m EXCEPT !.threw = TRUE, !.ncopy = @ + 1]
    ELSE PlacementLoop(Construct([m EXCEPT !.ncopy = @ + 1], db, j, At(m, sb, j)),
                       sb, n, db, j + 1)

\* the early return taken only below the current capacity
ReserveIsNoOpStrict(m, v, k) == k < Capacity(m, v)

\* if (new_capacity <= data_.Capacity()) return;
ReserveIsNoOp(m, v, k) == k <= Capacity(m, v)

Reserve(m, v, k) ==
    IF ReserveIsNoOp(m, v, k) THEN [m EXCEPT !.path = "noop"]
    ELSE LET n == Size(m, v)
             old == m.vec[v].buf
             m1 == IF m.variant = 1
                   THEN LET a1 == NewLocal(m, k)
                        IN Transfer(a1, old, 0, n, a1.local.buf, 0)
                   ELSE SwapNewData(m, v, k)
             m2 == DestroyN(m1, old, 0, n)
             m3 == SwapLocal(m2, v)
             m4 == IF Stopped(m3) THEN m3 ELSE [m3 EXCEPT !.path = "grow"]
         IN DropLocal(m4)

Resize(m, v, k) ==
    LET n == Size(m, v)
        old == m.vec[v].buf
    IN IF n > k
       THEN [SetSize(DestroyN(m, old, k, n - k), v, k) EXCEPT !.path = "shrink"]
       ELSE IF k > Capacity(m, v)
       THEN LET m1 == IF m.variant = 1
                      THEN LET a1 == NewLocal(m, k)
                           IN PlacementLoop(a1, old, n, a1.local.buf, 0)
                      ELSE SwapNewData(m, v, k)
                m2 == ValueConstructN(m1, m1.local.buf, n, k - n)
                m3 == SwapLocal(m2, v)
                m4 == DestroyN(m3, m3.local.buf, 0, n)
                m5 == SetSize(m4, v, k)
                m6 == IF Stopped(m5) THEN m5 ELSE [m5 EXCEPT !.path = "grow"]
            IN DropLocal(m6)
       ELSE [SetSize(ValueConstructN(m, old, n, k - n), v, k) EXCEPT !.path = "fill"]

\* -------------------------------------------------- Erase and PopBack
\* for (i = pos; i != end() - (pos - begin() + 1); i++) *i = std::move(*(i + 1))
\* (variant 1, lines 316-323); stop is the index of the loop's end pointer
RECURSIVE EraseLoop(_, _, _, _)
EraseLoop(m, b, i, stop) ==
    IF Stopped(m) \/ i = stop THEN m
    ELSE EraseLoop([AssignFrom(m, b, i + 1, b, i) EXCEPT !.shifts = @ + 1], b, i + 1, stop)

Erase(m, v, i) ==
    LET b == m.vec[v].buf
        n == Size(m, v)
        m1 == IF m.variant = 1
              THEN EraseLoop(m, b, i, n - (i + 1))
              ELSE IF m.nma
              THEN [UninitializedMoveN(m, b, i + 1, i + 1, b, i) EXCEPT !.shifts = i + 1]
              ELSE [CopyN(m, b, i + 1, i + 1, b, i) EXCEPT !.shifts = i + 1]
        m2 == SetSize(m1, v, n - 1)
        m3 == Destroy(m2, b, Size(m2, v))
    IN IF Stopped(m3) THEN m3 ELSE [m3 EXCEPT !.ret = [buf |-> b, off |-> i], !.path = "erase"]

PopBack(m, v) ==
    IF m.variant = 2 /\ Size(m, v) = 0 THEN [m EXCEPT !.path = "noop"]
    ELSE LET m1 == SetSize(m, v, Size(m, v) - 1)
             m2 == Destroy(m1, m.vec[v].buf, Size(m1, v))
         IN IF Stopped(m2) THEN m2 ELSE [m2 EXCEPT !.path = "pop"]

\* --------------------------------- construction, assignment, destruction
\* Vector() noexcept = default
DefaultCtor(m, v) == [m EXCEPT !.vec[v] = [alive |-> TRUE, buf |-> 0, cap |-> 0, size |-> 0]]

\* explicit Vector(size_t size)
SizedCtor(m, v, n) ==
    LET m1 == NewLocal(m, n)
        m2 == ValueConstructN(m1, m1.local.buf, 0, n)
    IN IF Stopped(m2) THEN DropLocal(m2)
       ELSE [m2 EXCEPT !.vec[v] = [alive |-> TRUE, buf |-> m2.local.buf, cap |-> n, size |-> n],
                       !.local = NullMem]

\* a copy constructor that takes over the source's buffer instead of copying
CopyCtorShallow(m, v, o) ==
    [m EXCEPT !.vec[v] = [alive |-> TRUE, buf |-> m.vec[o].buf,
                          cap |-> Size(m, o), size |-> Size(m, o)]]

\* Vector(const Vector& other); when a copy throws the member data_ is
\* destroyed and no object comes into being
CopyCtor(m, v, o) ==
    LET n == Size(m, o)
        m1 == NewLocal(m, n)
        m2 == UninitializedCopyN(m1, m.vec[o].buf, 0, n, m1.local.buf, 0)
    IN IF Stopped(m2) THEN DropLocal(m2)
       ELSE [m2 EXCEPT !.vec[v] = [alive |-> TRUE, buf |-> m2.local.buf, cap |-> n, size |-> n],
                       !.local = NullMem]

\* a move constructor that forgets to empty its source
RawMemoryMoveKeepsSource(m, v, o) ==
    [m EXCEPT !.vec[v].buf = m.vec[o].buf, !.vec[v].cap = m.vec[o].cap]

\* RawMemory(RawMemory&& other): takes buffer_ and capacity_, then
\* other.buffer_ = nullptr; other.capacity_ = 0
RawMemoryMove(m, v, o) ==
    [m EXCEPT !.vec[v].buf = m.vec[o].buf, !.vec[v].cap = m.vec[o].cap,
              !.vec[o].buf = 0, !.vec[o].cap = 0]

\* a RawMemory object on its own: RawMemory(size_t capacity), held in the
\* record of an object whose size stays 0
RawMemoryCtor(m, v, n) ==
    LET m1 == NewLocal(m, n)
    IN [m1 EXCEPT !.vec[v] = [alive |-> TRUE, buf |-> m1.local.buf, cap |-> n, size |-> 0],
                  !.local = NullMem]

\* RawMemory(RawMemory&& other) noexcept as a call of its own
RawMemoryMoveCtor(m, v, o) == RawMemoryMove([m EXCEPT !.vec[v].alive = TRUE], v, o)

\* RawMemory& operator=(RawMemory&& rhs) noexcept { Swap(rhs); return *this; }
RawMemoryMoveAssign(m, v, o) ==
    [m EXCEPT !.vec[v].buf = m.vec[o].buf, !.vec[v].cap = m.vec[o].cap,
              !.vec[o].buf = m.vec[v].buf, !.vec[o].cap = m.vec[v].cap]

\* ~RawMemory() { Deallocate(buffer_); }
RawMemoryDtor(m, v) ==
    LET m1 == Deallocate(m, m.vec[v].buf)
    IN IF Crashed(m1) THEN m1 ELSE [m1 EXCEPT !.vec[v] = DeadVec]

\* Vector(Vector&& other) noexcept
MoveCtor(m, v, o) ==
    LET m1 == RawMemoryMove([m EXCEPT !.vec[v].alive = TRUE], v, o)
    IN [m1 EXCEPT !.vec[v].size = m.vec[o].size, !.vec[o].size = 0]

\* a Swap that exchanges the buffers and leaves the sizes where they were
SwapBufferOnly(m, v, o) ==
    [m EXCEPT !.path = "swap", !.vec[v].buf = m.vec[o].buf, !.vec[v].cap = m.vec[o].cap,
              !.vec[o].buf = m.vec[v].buf, !.vec[o].cap = m.vec[v].cap]

\* void Swap(Vector& other) noexcept
Swap(m, v, o) ==
    [m EXCEPT !.path = "swap", !.vec[v].buf = m.vec[o].buf, !.vec[v].cap = m.vec[o].cap,
              !.vec[v].size = m.vec[o].size,
              !.vec[o].buf = m.vec[v].buf, !.vec[o].cap = m.vec[v].cap,
              !.vec[o].size = m.vec[v].size]

\* ~Vector(): std::destroy_n(data_.GetAddress(), size_), then ~RawMemory()
Dtor(m, v) ==
    LET m1 == DestroyN(m, m.vec[v].buf, 0, Size(m, v))
        m2 == Deallocate(m1, m.vec[v].buf)
    IN IF Crashed(m2) THEN m2 ELSE [m2 EXCEPT !.vec[v] = DeadVec]

\* an in-place reconciliation that adjusts the tail but leaves the common
\* prefix as it was
CopyRhsTailOnly(m, v, o) ==
    LET n == Size(m, v)
        r == Size(m, o)
        m2 == IF n < r
              THEN UninitializedCopyN(m, m.vec[o].buf, n, r - n, m.vec[v].buf, n)
              ELSE DestroyN(m, m.vec[v].buf, r, n - r)
        m3 == SetSize(m2, v, r)
    IN IF Stopped(m3) THEN m3 ELSE [m3 EXCEPT !.path = "inplace"]

\* the in-place branch of copy assignment: variant 1 lines 131-139, variant 2
\* CopyRhs
CopyRhs(m, v, o) ==
    LET n == Size(m, v)
        r == Size(m, o)
        cnt == IF n < r THEN n ELSE r
        m1 == CopyN(m, m.vec[o].buf, 0, cnt, m.vec[v].buf, 0)
        m2 == IF n < r
              THEN UninitializedCopyN(m1, m.vec[o].buf, n, r - n, m.vec[v].buf, n)
              ELSE DestroyN(m1, m.vec[v].buf, r, n - r)
        m3 == SetSize(m2, v, r)
    IN IF Stopped(m3) THEN m3 ELSE [m3 EXCEPT !.path = "inplace"]

\* a copy assignment that applies copy-and-swap whatever the source's size
CopyAssignAlwaysSwap(m, v, o) ==
    IF v = o THEN [m EXCEPT !.path = "self"]
    ELSE LET m1 == CopyCtor(m, "tmp", o)
         IN IF Stopped(m1) THEN m1
            ELSE [Dtor(Swap(m1, v, "tmp"), "tmp") EXCEPT !.path = "copyswap"]

\* Vector& operator=(const Vector& rhs); rhs_copy is the object "tmp"
CopyAssign(m, v, o) ==
    IF v = o THEN [m EXCEPT !.path = "self"]
    ELSE IF Size(m, o) > Capacity(m, v)
    THEN LET m1 == CopyCtor(m, "tmp", o)
         IN IF Stopped(m1) THEN m1
            ELSE [Dtor(Swap(m1, v, "tmp"), "tmp") EXCEPT !.path = "copyswap"]
    ELSE CopyRhs(m, v, o)

\* Vector& operator=(Vector&& rhs) noexcept
MoveAssign(m, v, o) ==
    IF v = o THEN [m EXCEPT !.path = "self"] ELSE Swap(m, v, o)

\* ------------------------------------------------------ state machine
NoRet == [buf |-> 0, off |-> 0]

\* the machine a call starts from: ub is how undefined behaviour turns out
\* in this call ("crash" or "lucky"), failAt the copy constructor call that
\* throws
Machine(ub, failAt) ==
    [vec |-> vec, heap |-> heap, nlive |-> nlive, variant |-> variant,
     safe |-> transferSafe, nma |-> nothrowMoveAssign,
     ub |-> ub, failAt |-> failAt, ncopy |-> 0, threw |-> FALSE, fault |-> "none",
     viol |-> FALSE, slot |-> FALSE, dfree |-> FALSE, local |-> NullMem, ret |-> NoRet,
     path |-> "", shifts |-> 0, ops |-> 0]

\* a released block nobody refers to goes back to the allocator
Normalise(m) ==
    [b \in BlockIds |->
        IF m.heap[b].st = "released" /\ \A v \in Objs : m.vec[v].buf # b
        THEN FreeBlock ELSE m.heap[b]]

Result(m) ==
    IF m.fault # "none" THEN m.fault
    ELSE IF m.threw THEN "threw"
    ELSE IF m.dfree \/ \E v \in Objs : m.vec[v].alive /\ Dangling(m, Data(m, v)) THEN "ub"
    ELSE "ok"

\* constructions minus destructions, less the elements the vectors hold
RECURSIVE SumSizes(_, _)
SumSizes(f, S) ==
    IF S = {} THEN 0
    ELSE LET v == CHOOSE w \in S : TRUE
         IN (IF f[v].alive THEN f[v].size ELSE 0) + SumSizes(f, S \ {v})

Imbalance == nlive - SumSizes(vec, Vecs)

\* calls are followed until the first crash or the first lost element; after
\* a lost element only destructors still run
Running == fault = "none" /\ Imbalance = 0

\* the state after a call that ended in machine m
Commit(m, op, v, o, i, x) ==
    /\ vec' = m.vec
    /\ heap' = Normalise(m)
    /\ nlive' = m.nlive
    /\ fault' = IF Result(m) \in {"crash", "ub"} THEN Result(m) ELSE "none"
    /\ last' = [op |-> op, v |-> v, o |-> o, i |-> i, x |-> x, res |-> Result(m),
                path |-> m.path, ret |-> m.ret, shifts |-> m.shifts, viol |-> m.viol,
                ops |-> m.ops, slot |-> m.slot]
    /\ UNCHANGED <<variant, transferSafe, nothrowMoveAssign>>

Init ==
    /\ variant \in {1, 2}
    /\ transferSafe \in BOOLEAN
    /\ nothrowMoveAssign \in BOOLEAN
    /\ vec = [v \in Objs |-> DeadVec]
    /\ heap = [b \in BlockIds |-> FreeBlock]
    /\ nlive = 0
    /\ fault = "none"
    /\ last = [op |-> "Init", v |-> "a", o |-> "a", i |-> 0, x |-> 0, res |-> "ok",
               path |-> "", ret |-> NoRet, shifts |-> 0, viol |-> FALSE, ops |-> 0,
               slot |-> FALSE]

\* every way a call can end: without a throw, with the f-th copy constructor
\* call throwing (for each call it makes), and, for a call that runs into
\* undefined behaviour, both with the lucky outcome and with a crash
Outcomes(Op(_)) ==
    LET m0 == Op(Machine("lucky", NoFail))
    IN UNION { LET mf == IF f = NoFail THEN m0 ELSE Op(Machine("lucky", f))
               IN IF mf.viol THEN {mf, Op(Machine("crash", f))} ELSE {mf}
               : f \in {NoFail} \cup 0..(m0.ncopy - 1) }

DoDefaultCtor(v) ==
    /\ Running /\ ~vec[v].alive
    /\ \E m \in Outcomes(LAMBDA mm : DefaultCtor(mm, v)) : Commit(m, "DefaultCtor", v, v, 0, 0)

DoSizedCtor(v, n) ==
    /\ Running /\ ~vec[v].alive
    /\ \E m \in Outcomes(LAMBDA mm : SizedCtor(mm, v, n)) : Commit(m, "SizedCtor", v, v, n, 0)

DoCopyCtor(v, o) ==
    /\ Running /\ ~vec[v].alive /\ vec[o].alive
    /\ \E m \in Outcomes(LAMBDA mm : CopyCtor(mm, v, o)) : Commit(m, "CopyCtor", v, o, 0, 0)

DoMoveCtor(v, o) ==
    /\ Running /\ ~vec[v].alive /\ vec[o].alive
    /\ \E m \in Outcomes(LAMBDA mm : MoveCtor(mm, v, o)) : Commit(m, "MoveCtor", v, o, 0, 0)

DoCopyAssign(v, o) ==
    /\ Running /\ vec[v].alive /\ vec[o].alive
    /\ \E m \in Outcomes(LAMBDA mm : CopyAssign(mm, v, o)) : Commit(m, "CopyAssign", v, o, 0, 0)

DoMoveAssign(v, o) ==
    /\ Running /\ vec[v].alive /\ vec[o].alive
    /\ \E m \in Outcomes(LAMBDA mm : MoveAssign(mm, v, o)) : Commit(m, "MoveAssign", v, o, 0, 0)

DoSwap(v, o) ==
    /\ Running /\ vec[v].alive /\ vec[o].alive
    /\ \E m \in Outcomes(LAMBDA mm : Swap(mm, v, o)) : Commit(m, "Swap", v, o, 0, 0)

DoReserve(v, k) ==
    /\ Running /\ vec[v].alive
    /\ \E m \in Outcomes(LAMBDA mm : Reserve(mm, v, k)) : Commit(m, "Reserve", v, v, k, 0)

DoResize(v, k) ==
    /\ Running /\ vec[v].alive
    /\ \E m \in Outcomes(LAMBDA mm : Resize(mm, v, k)) : Commit(m, "Resize", v, v, k, 0)

\* PushBack(const T& value) { EmplaceBack(value); }
DoPushBack(v, x) ==
    /\ Running /\ vec[v].alive
    /\ \E m \in Outcomes(LAMBDA mm : EmplaceBack(mm, v, x)) :
          Commit(m, "PushBack", v, v, vec[v].size, x)

\* Insert(pos, value) { return Emplace(pos, value); }; begin() <= pos <= end()
DoInsert(v, i, x) ==
    /\ Running /\ vec[v].alive /\ i \in 0..vec[v].size
    /\ \E m \in Outcomes(LAMBDA mm : Emplace(mm, v, i, x)) : Commit(m, "Insert", v, v, i, x)

\* Erase(pos); begin() <= pos < end()
DoErase(v, i) ==
    /\ Running /\ vec[v].alive /\ i \in 0..(vec[v].size - 1)
    /\ \E m \in Outcomes(LAMBDA mm : Erase(mm, v, i)) : Commit(m, "Erase", v, v, i, 0)

DoPopBack(v) ==
    /\ Running /\ vec[v].alive
    /\ \E m \in Outcomes(LAMBDA mm : PopBack(mm, v)) : Commit(m, "PopBack", v, v, 0, 0)

DoDtor(v) ==
    /\ fault = "none" /\ vec[v].alive
    /\ \E m \in Outcomes(LAMBDA mm : Dtor(mm, v)) : Commit(m, "Dtor", v, v, 0, 0)

DoRawMemoryCtor(v, n) ==
    /\ Running /\ ~vec[v].alive
    /\ \E m \in Outcomes(LAMBDA mm : RawMemoryCtor(mm, v, n)) :
          Commit(m, "RawMemoryCtor", v, v, n, 0)

DoRawMemoryMoveCtor(v, o) ==
    /\ Running /\ ~vec[v].alive /\ vec[o].alive
    /\ \E m \in Outcomes(LAMBDA mm : RawMemoryMoveCtor(mm, v, o)) :
          Commit(m, "RawMemoryMoveCtor", v, o, 0, 0)

DoRawMemoryMoveAssign(v, o) ==
    /\ Running /\ vec[v].alive /\ vec[o].alive
    /\ \E m \in Outcomes(LAMBDA mm : RawMemoryMoveAssign(mm, v, o)) :
          Commit(m, "RawMemoryMoveAssign", v, o, 0, 0)

DoRawMemoryDtor(v) ==
    /\ fault = "none" /\ vec[v].alive
    /\ \E m \in Outcomes(LAMBDA mm : RawMemoryDtor(mm, v)) :
          Commit(m, "RawMemoryDtor", v, v, 0, 0)

\* the call kept every capacity within c
CapWithin(c) == \A w \in Objs : vec'[w].cap <= c

\* one Vector object and every member function that works on it alone
Next ==
    \/ DoDefaultCtor("a")
    \/ \E n \in 0..MaxAsk : DoSizedCtor("a", n)
    \/ \E k \in 0..MaxAsk : DoReserve("a", k)
    \/ \E k \in 0..MaxAsk : DoResize("a", k)
    \/ \E x \in Val : DoPushBack("a", x) /\ CapWithin(MaxCap)
    \/ \E i \in 0..MaxCap, x \in Val : DoInsert("a", i, x) /\ CapWithin(MaxCap)
    \/ \E i \in 0..MaxCap : DoErase("a", i)
    \/ DoPopBack("a")
    \/ DoDtor("a")

Spec == Init /\ [][Next]_vars

\* one Vector object, built empty and only ever pushed to
NextPush ==
    \/ DoDefaultCtor("a")
    \/ \E x \in Val : DoPushBack("a", x) /\ CapWithin(PushCap)

SpecPush == Init /\ [][NextPush]_vars

\* two Vector objects and the member functions that take another Vector
NextPair ==
    \/ \E v \in Vecs : DoDefaultCtor(v)
    \/ \E v \in Vecs, x \in Val : DoPushBack(v, x) /\ CapWithin(PairCap)
    \/ \E v \in Vecs, o \in Vecs : DoCopyCtor(v, o)
    \/ \E v \in Vecs, o \in Vecs : DoMoveCtor(v, o)
    \/ \E v \in Vecs, o \in Vecs : DoCopyAssign(v, o)
    \/ \E v \in Vecs, o \in Vecs : DoMoveAssign(v, o)
    \/ \E v \in Vecs, o \in Vecs : DoSwap(v, o)
    \/ \E v \in Vecs : DoDtor(v)

\* none of these member functions consults is_nothrow_move_assignable_v<T>
InitPair == Init /\ nothrowMoveAssign

SpecPair == InitPair /\ [][NextPair]_vars

\* two RawMemory objects on their own: construction with a capacity, move
\* construction, move assignment and destruction
NextRaw ==
    \/ \E v \in Vecs, n \in 0..MaxAsk : DoRawMemoryCtor(v, n)
    \/ \E v \in Vecs, o \in Vecs : DoRawMemoryMoveCtor(v, o)
    \/ \E v \in Vecs, o \in Vecs : DoRawMemoryMoveAssign(v, o)
    \/ \E v \in Vecs : DoRawMemoryDtor(v)

SpecRaw == Init /\ [][NextRaw]_vars

\* the scenario of one Vector: built empty, PushBack(1), PushBack(2),
\* PushBack(3), Insert(begin() + 1, 99), Erase(begin()), PopBack(); each call
\* is made once the one before it has returned
After(op, x) == last.op = op /\ last.x = x /\ last.res = "ok"

NextTrace ==
    \/ DoDefaultCtor("a")
    \/ After("DefaultCtor", 0) /\ DoPushBack("a", 1)
    \/ After("PushBack", 1) /\ DoPushBack("a", 2)
    \/ After("PushBack", 2) /\ DoPushBack("a", 3)
    \/ After("PushBack", 3) /\ DoInsert("a", 1, 99)
    \/ After("Insert", 99) /\ DoErase("a", 0)
    \/ After("Erase", 0) /\ DoPopBack("a")

SpecTrace == Init /\ [][NextTrace]_vars

\* the member functions that may work within the capacity a Vector has, all
\* called on the Vector a: PushBack, Insert, Erase, PopBack, Resize and copy
\* assignment from a second Vector b, which is built with a given size
NextKeep ==
    \/ DoDefaultCtor("a")
    \/ \E k \in 0..PairCap : DoSizedCtor("b", k)
    \/ \E x \in Val : DoPushBack("a", x) /\ CapWithin(PairCap)
    \/ \E i \in 0..PairCap, x \in Val : DoInsert("a", i, x) /\ CapWithin(PairCap)
    \/ \E i \in 0..PairCap : DoErase("a", i)
    \/ DoPopBack("a")
    \/ \E k \in 0..PairCap : DoResize("a", k)
    \/ DoCopyAssign("a", "b")

SpecKeep == Init /\ [][NextKeep]_vars

\* ------------------------------------------------------------ claims
\* the elements of v, read through operator[] at 0..size-1
Elems(vs, h, v) ==
    IF vs[v].buf \in BlockIds /\ vs[v].size <= Len(h[vs[v].buf].slots)
    THEN SubSeq(h[vs[v].buf].slots, 1, vs[v].size)
    ELSE <<>>

InsertAt(s, i, x) == SubSeq(s, 1, i) \o <<x>> \o SubSeq(s, i + 1, Len(s))
RemoveAt(s, i) == SubSeq(s, 1, i) \o SubSeq(s, i + 2, Len(s))

\* the call that leads to the next state, and the object it was made on
Called(op) == last'.op = op
Self == last'.v
Returned == last'.res \in {"ok", "ub"}

\* C1: whenever a call has returned, every Vector has 0 <= size <= capacity.
C1_SizeWithinCapacity ==
    fault # "crash" =>
        \A v \in Vecs : vec[v].alive => (0 <= vec[v].size /\ vec[v].size <= vec[v].cap)

\* C2: Erase at index i of a Vector of size n that returns leaves size n-1,
\* the elements before i unchanged and every later element one index lower.
C2_EraseShiftsLeft ==
    [][(Called("Erase") /\ last'.res = "ok") =>
          /\ vec'[Self].size = vec[Self].size - 1
          /\ Elems(vec', heap', Self) = RemoveAt(Elems(vec, heap, Self), last'.i)]_vars

\* C3: Insert/Emplace of x at index i of a Vector of size n, unless the
\* element constructor throws, returns with size n+1, the elements before i
\* unchanged, x at i and every later element one index higher.
C3_InsertShiftsRight ==
    [][(Called("Insert") /\ last'.res # "threw") =>
          /\ last'.res = "ok"
          /\ vec'[Self].size = vec[Self].size + 1
          /\ Elems(vec', heap', Self) = InsertAt(Elems(vec, heap, Self), last'.i, last'.x)]_vars

\* the calls that have to grow the buffer
Reallocating ==
    \/ last'.op \in {"PushBack", "Insert"} /\ vec[Self].size = vec[Self].cap
    \/ last'.op \in {"Reserve", "Resize"} /\ last'.i > vec[Self].cap

\* C4: for a transfer-unsafe T, a PushBack, Insert, Reserve or Resize that has
\* to grow the buffer and in which a copy construction throws leaves the
\* Vector with its size, capacity, buffer and elements as before the call.
C4_StrongGuarantee ==
    [][(~transferSafe /\ Reallocating /\ last'.res = "threw") =>
          /\ vec'[Self] = vec[Self]
          /\ Elems(vec', heap', Self) = Elems(vec, heap, Self)
          /\ (vec[Self].buf = 0 \/ heap'[vec[Self].buf].st = "alloc")]_vars

\* an Insert into the middle of a full Vector of two or more elements threw
C4_Witness ==
    /\ ~transferSafe /\ last.op = "Insert" /\ last.res = "threw"
    /\ vec["a"].size = vec["a"].cap /\ vec["a"].size >= 2
    /\ last.i > 0 /\ last.i < vec["a"].size
    /\ Elems(vec, heap, "a") = <<0, 1>>

\* C5: a call in which a copy construction throws loses no element: every
\* element it constructed has been destroyed when the exception leaves it.
C5_NoLeakOnThrow ==
    [][last'.res = "threw" => nlive' = nlive]_vars

\* v owns an allocated block of capacity slots (or none) whose live slots are
\* exactly those below size
SlotsAsSpecified(v) ==
    IF vec[v].buf = 0 THEN vec[v].cap = 0 /\ vec[v].size = 0
    ELSE /\ heap[vec[v].buf].st = "alloc"
         /\ Len(heap[vec[v].buf].slots) = vec[v].cap
         /\ \A j \in 0..(vec[v].cap - 1) :
               (heap[vec[v].buf].slots[j + 1] # Raw) <=> (j < vec[v].size)

\* C6: whenever a call has returned, every Vector owns a live allocation (or
\* none, with capacity 0) in which exactly the slots [0, size) are live.
C6_LiveExactlyBelowSize ==
    fault # "crash" => \A v \in Vecs : vec[v].alive => SlotsAsSpecified(v)

\* the smallest power of two >= n, found by doubling from p
RECURSIVE PowerOfTwoAtLeast(_, _)
PowerOfTwoAtLeast(n, p) == IF p >= n THEN p ELSE PowerOfTwoAtLeast(n, 2 * p)

DoubledCapacity(n) == IF n = 0 THEN 0 ELSE PowerOfTwoAtLeast(n, 1)

\* C7: a Vector built empty and only pushed to has, after every PushBack,
\* one element more, the pushed value appended behind the earlier ones, and
\* as capacity the smallest power of two >= its size, which changes only on a
\* push made at size = capacity.
C7_PushBackDoubling ==
    /\ [](vec["a"].alive => vec["a"].cap = DoubledCapacity(vec["a"].size))
    /\ [][(Called("PushBack") /\ last'.res = "ok") =>
             /\ vec'["a"].size = vec["a"].size + 1
             /\ Elems(vec', heap', "a") = Append(Elems(vec, heap, "a"), last'.x)
             /\ (vec'["a"].cap # vec["a"].cap => vec["a"].size = vec["a"].cap)]_vars

\* five pushes took the capacity through 1, 2 and 4 to 8
C7_Witness ==
    /\ last.op = "PushBack" /\ last.res = "ok" /\ last.path = "realloc"
    /\ vec["a"].size = 5 /\ vec["a"].cap = 8
    /\ Elems(vec, heap, "a") = <<1, 0, 1, 1, 0>>

\* C8: Reserve(k) with k > capacity that returns leaves capacity = k, the
\* size and the elements unchanged, and the Vector owning an allocated block.
C8_ReserveGrows ==
    [][(Called("Reserve") /\ last'.i > vec[Self].cap /\ Returned) =>
          /\ vec'[Self].cap = last'.i
          /\ vec'[Self].size = vec[Self].size
          /\ Elems(vec', heap', Self) = Elems(vec, heap, Self)
          /\ vec'[Self].buf \in BlockIds
          /\ heap'[vec'[Self].buf].st = "alloc"]_vars

\* C9: Reserve(k) with k <= capacity changes nothing: the Vector, its buffer
\* and every slot are as before, and no element operation ran.
C9_ReserveNoOp ==
    [][(Called("Reserve") /\ last'.i <= vec[Self].cap) =>
          /\ last'.res = "ok"
          /\ vec' = vec /\ heap' = heap /\ nlive' = nlive
          /\ last'.ops = 0]_vars

\* Reserve(capacity) on a Vector that holds elements
C9_Witness ==
    /\ last.op = "Reserve" /\ last.path = "noop" /\ last.res = "ok"
    /\ vec["a"].size >= 2 /\ last.i = vec["a"].cap

\* C10: move construction from S leaves S with size 0 and capacity 0 and the
\* new Vector with S's buffer, capacity and size, and runs no element
\* operation.
C10_MoveCtor ==
    [][Called("MoveCtor") =>
          /\ last'.res = "ok"
          /\ vec'[last'.o].size = 0 /\ vec'[last'.o].cap = 0 /\ vec'[last'.o].buf = 0
          /\ vec'[Self].alive
          /\ vec'[Self].buf = vec[last'.o].buf
          /\ vec'[Self].cap = vec[last'.o].cap
          /\ vec'[Self].size = vec[last'.o].size
          /\ Elems(vec', heap', Self) = Elems(vec, heap, last'.o)
          /\ heap' = heap /\ nlive' = nlive /\ last'.ops = 0]_vars

\* a Vector of two elements was moved from
C10_Witness ==
    /\ last.op = "MoveCtor" /\ vec[last.v].size = 2 /\ vec[last.v].buf # 0
    /\ vec[last.o].alive /\ vec[last.o].cap = 0

\* the calls that change one Vector and are given the others, if at all, as
\* const
MutatesSelfOnly ==
    last'.op \in {"PushBack", "CopyCtor", "CopyAssign", "Dtor"}

\* C11: a copy construction from S that returns leaves a Vector with S's
\* size, capacity equal to S's size, S's elements in the same order, in a
\* block of its own, and S as it was; afterwards a call that changes one
\* Vector leaves every other Vector's size, capacity, buffer and elements as
\* they were and its block allocated.
C11_CopyCtor ==
    /\ [][(Called("CopyCtor") /\ last'.res = "ok") =>
             /\ vec'[Self].alive
             /\ vec'[Self].size = vec[last'.o].size
             /\ vec'[Self].cap = vec[last'.o].size
             /\ Elems(vec', heap', Self) = Elems(vec, heap, last'.o)
             /\ (vec[last'.o].size > 0 =>
                   /\ vec'[Self].buf \in BlockIds
                   /\ vec'[Self].buf # vec'[last'.o].buf
                   /\ heap[vec'[Self].buf].st = "free")]_vars
    /\ [][MutatesSelfOnly =>
             \A w \in Vecs \ {Self} :
                /\ vec'[w] = vec[w]
                /\ Elems(vec', heap', w) = Elems(vec, heap, w)
                /\ (vec[w].buf # 0 => heap'[vec[w].buf] = heap[vec[w].buf])]_vars
    /\ [](\A v \in Vecs, w \in Vecs :
             (v # w /\ vec[v].alive /\ vec[w].alive /\ vec[v].buf # 0) =>
                vec[v].buf # vec[w].buf)

\* a Vector holding 0, 1 in a block of capacity 2 was copied
C11_Witness ==
    /\ last.op = "CopyCtor" /\ last.res = "ok"
    /\ Elems(vec, heap, last.o) = <<0, 1>>
    /\ Elems(vec, heap, last.v) = <<0, 1>>
    /\ vec[last.v].buf # vec[last.o].buf

\* C12: PopBack on a Vector of size 0 returns and changes nothing: the size
\* stays 0, the capacity and the buffer are as before, and no element
\* operation runs.
C12_PopBackEmpty ==
    [][(Called("PopBack") /\ vec[Self].size = 0) =>
          /\ last'.res = "ok"
          /\ vec'[Self].size = 0
          /\ vec'[Self].cap = vec[Self].cap
          /\ vec'[Self].buf = vec[Self].buf
          /\ heap' = heap /\ nlive' = nlive
          /\ last'.ops = 0]_vars

\* C13: a copy assignment a = b between two distinct Vectors leaves b as it
\* was; if it returns, a has b's size and b's elements in order, with a's
\* capacity and buffer unchanged when b.size <= a's capacity before the call
\* and with capacity b.size when b.size was larger; in that second case a call
\* in which a copy throws leaves a's size, capacity, buffer and elements as
\* they were.
C13_CopyAssign ==
    [][(Called("CopyAssign") /\ last'.v # last'.o) =>
          /\ last'.res \in {"ok", "threw"}
          /\ vec'[last'.o] = vec[last'.o]
          /\ Elems(vec', heap', last'.o) = Elems(vec, heap, last'.o)
          /\ (last'.res = "ok" =>
                /\ vec'[Self].size = vec[last'.o].size
                /\ Elems(vec', heap', Self) = Elems(vec, heap, last'.o)
                /\ (vec[last'.o].size <= vec[Self].cap =>
                      /\ vec'[Self].cap = vec[Self].cap
                      /\ vec'[Self].buf = vec[Self].buf)
                /\ (vec[last'.o].size > vec[Self].cap =>
                      vec'[Self].cap = vec[last'.o].size))
          /\ ((last'.res = "threw" /\ vec[last'.o].size > vec[Self].cap) =>
                /\ vec'[Self] = vec[Self]
                /\ Elems(vec', heap', Self) = Elems(vec, heap, Self)
                /\ (vec[Self].buf # 0 => heap'[vec[Self].buf] = heap[vec[Self].buf]))]_vars

\* an in-place copy assignment overwrote two elements with two others
C13_Witness ==
    /\ last.op = "CopyAssign" /\ last.res = "ok" /\ last.path = "inplace"
    /\ last.v # last.o
    /\ Elems(vec, heap, last.v) = <<1, 0>>
    /\ Elems(vec, heap, last.o) = <<1, 0>>
    /\ last.ops >= 2

\* C14: Swap, and move assignment between two distinct Vectors, return with
\* each Vector holding the other's buffer, capacity and size, every other
\* object and the heap as before, and no element operation run; Swap with
\* itself and move assignment to itself leave the Vector as it was.
C14_SwapExchanges ==
    [][(Called("Swap") \/ Called("MoveAssign")) =>
          /\ last'.res = "ok"
          /\ vec'[last'.v] = vec[last'.o]
          /\ vec'[last'.o] = vec[last'.v]
          /\ \A w \in Objs \ {last'.v, last'.o} : vec'[w] = vec[w]
          /\ heap' = heap /\ nlive' = nlive /\ last'.ops = 0]_vars

\* a move assignment gave a Vector of one element the two elements of
\* another
C14_Witness ==
    /\ last.op = "MoveAssign" /\ last.v # last.o
    /\ Elems(vec, heap, last.v) = <<0, 1>> /\ vec[last.v].cap = 2
    /\ Elems(vec, heap, last.o) = <<1>> /\ vec[last.o].cap = 1

\* the smaller of two numbers
Min(a, b) == IF a < b THEN a ELSE b

\* C15: Resize(k) on a Vector of size n and capacity c, unless a copy throws,
\* returns with size k and the first min(n, k) elements unchanged; for k < n
\* the capacity and buffer stay and the slots [k, n) are destroyed; for
\* n <= k <= c the capacity and buffer stay and the elements [n, k) are T();
\* for k > c the capacity is k and the elements [n, k) are T().
C15_Resize ==
    [][(Called("Resize") /\ last'.res # "threw") =>
          LET n == vec[Self].size
              c == vec[Self].cap
              k == last'.i
              old == Elems(vec, heap, Self)
              new == Elems(vec', heap', Self)
          IN /\ last'.res = "ok"
             /\ vec'[Self].size = k
             /\ Len(new) = k
             /\ \A j \in 1..Min(n, k) : new[j] = old[j]
             /\ \A j \in (n + 1)..k : new[j] = 0
             /\ (k <= c => /\ vec'[Self].cap = c
                           /\ vec'[Self].buf = vec[Self].buf)
             /\ (k < n => \A j \in (k + 1)..n : heap'[vec[Self].buf].slots[j] = Raw)
             /\ (k > c => vec'[Self].cap = k)]_vars

\* the element type of the scenario is int: its move constructor and its
\* move assignment do not throw (and no copy of an int throws)
IntLike == transferSafe /\ nothrowMoveAssign

\* C16: in the scenario, with int elements, the third PushBack leaves size 3,
\* capacity 4 and the elements 1, 2, 3; the Insert returns with size 4 and
\* 1, 99, 2, 3; the Erase returns with size 3 and 99, 2, 3; the PopBack
\* returns with size 2 and 99, 2.
C16_Scenario ==
    IntLike =>
       /\ After("PushBack", 3) =>
             /\ vec["a"].size = 3 /\ vec["a"].cap = 4
             /\ Elems(vec, heap, "a") = <<1, 2, 3>>
       /\ (last.op = "Insert" /\ last.res # "threw") =>
             /\ last.res = "ok" /\ vec["a"].size = 4
             /\ Elems(vec, heap, "a") = <<1, 99, 2, 3>>
       /\ last.op = "Erase" =>
             /\ last.res = "ok" /\ vec["a"].size = 3
             /\ Elems(vec, heap, "a") = <<99, 2, 3>>
       /\ last.op = "PopBack" =>
             /\ last.res = "ok" /\ vec["a"].size = 2
             /\ Elems(vec, heap, "a") = <<99, 2>>

\* the live Vectors whose buffer is block b
Owners(b) == {v \in Objs : vec[v].alive /\ vec[v].buf = b}

\* C17: between calls, every allocated block is the buffer of exactly one
\* live Vector, no block is left allocated by a local buffer of a finished
\* call (whether it returned or threw), and no live Vector's buffer names a
\* block that has been released.
C17_BlockOwnership ==
    fault # "crash" =>
       /\ \A b \in BlockIds : heap[b].st = "alloc" => Cardinality(Owners(b)) = 1
       /\ \A v \in Objs : (vec[v].alive /\ vec[v].buf # 0) => heap[vec[v].buf].st = "alloc"
       /\ \A b \in BlockIds : heap[b].st # "released"

\* C18: move construction and move assignment of a RawMemory from a distinct
\* source leave the destination with the source's address and capacity and
\* the source with the null address and capacity 0, whatever the destination
\* held.
C18_RawMemoryMove ==
    [][((Called("RawMemoryMoveCtor") \/ Called("RawMemoryMoveAssign")) /\ last'.v # last'.o) =>
          /\ last'.res = "ok"
          /\ vec'[last'.v].buf = vec[last'.o].buf
          /\ vec'[last'.v].cap = vec[last'.o].cap
          /\ vec'[last'.o].buf = 0
          /\ vec'[last'.o].cap = 0]_vars

\* C19: in every call, construction only ever targets an uninitialized slot
\* of an allocated block, and assignment, read, move-from and destruction
\* only ever target a live slot.
C19_SlotLifetime == ~last.slot

\* C20: Insert/Emplace of x at index i, unless a copy throws, returns a
\* position that is index i of the buffer the Vector owns after the call,
\* and the element there is x (append, in-place shift and reallocation
\* alike).
C20_ReturnedPosition ==
    [][(Called("Insert") /\ last'.res # "threw") =>
          /\ last'.res = "ok"
          /\ last'.ret.buf = vec'[Self].buf
          /\ last'.ret.off = last'.i
          /\ vec'[Self].buf \in BlockIds
          /\ heap'[vec'[Self].buf].st = "alloc"
          /\ last'.i < vec'[Self].size
          /\ heap'[vec'[Self].buf].slots[last'.i + 1] = last'.x]_vars


\* the call named by last' is one that needs no more capacity than the Vector
\* has: PopBack, Erase, Resize(k) with k <= capacity, Insert or PushBack with
\* size < capacity, copy assignment from a Vector with size <= capacity
WithinCapacity ==
    \/ Called("PopBack")
    \/ Called("Erase")
    \/ Called("Resize") /\ last'.i <= vec[Self].cap
    \/ (Called("Insert") \/ Called("PushBack")) /\ vec[Self].size < vec[Self].cap
    \/ Called("CopyAssign") /\ vec[last'.o].size <= vec[Self].cap

\* C21: a call that needs no more capacity than the Vector has (PopBack,
\* Erase, Resize(k) with k <= capacity, Insert and PushBack with size <
\* capacity, copy assignment from a source with size <= capacity) leaves the
\* Vector's capacity and buffer as they were and neither allocates nor
\* releases a block, however the call ends.
C21_KeepsStorage ==
    [][WithinCapacity =>
          /\ vec'[Self].cap = vec[Self].cap
          /\ vec'[Self].buf = vec[Self].buf
          /\ \A b \in BlockIds : heap'[b].st = heap[b].st]_vars

\* an Insert before the only element of a Vector with capacity 2 returned
C21_Witness ==
    /\ last.op = "Insert" /\ last.path = "inplace" /\ last.res = "ok" /\ last.i = 0
    /\ vec[last.v].size = 2 /\ vec[last.v].cap = 2


\* C22: Erase at index i of a Vector of size n, 0 <= i < n, returns after
\* exactly n - i - 1 element shifts, and the highest slot its shifts touch,
\* i + shifts, is below n.
C22_EraseBounded ==
    [][(Called("Erase") /\ last'.i < vec[Self].size) =>
          /\ Returned
          /\ last'.shifts = vec[Self].size - last'.i - 1
          /\ last'.i + last'.shifts < vec[Self].size]_vars

====
